---- MODULE Spec2Model ----
(***************************************************************************)
(* Presence-and-delivery core of the mingle chat server (src/server.js):   *)
(* the onlineUsers registry, the socket.io handlers user_login,            *)
(* send_message, send_image, typing and disconnect, and the messages       *)
(* table written through db.run.                                           *)
(***************************************************************************)
EXTENDS Integers, Sequences, FiniteSets, TLC

(* ---- bounds ---- *)
MaxSockets == 2
MaxUsers == 2
MaxSends == 1

Users == 1..MaxUsers
\* the senderId field of send and typing data is copied, never looked up:
\* one claimed identity is enough, whoever the issuing socket is bound to
SenderIds == {1}
SocketIds == 1..MaxSockets

\* a field that is undefined in the event data / NULL in the table
Null == "null"
TextBodies == {"hi", Null}
ImageBodies == {"img", Null}
Timestamps == {"t1"}

VARIABLES
  sockets,      \* ids of the connections that are open (socket.io sockets)
  nextSocket,   \* id the next connection gets (socket.id is fresh per connection)
  onlineUsers,  \* the Map userId -> socket.id, as its entries in insertion order
  messages,     \* rows of the messages table, in rowid order
  sends,        \* db.run calls of the send handlers: closure, progress and
                \* history (fromBound, rcvAtInsert, rcvLeft)
  emitted,      \* events emitted by the handler that ran last
  delivered,    \* every receive_message / receive_image emitted so far
  logins,       \* history: the identities each open socket has logged in as
  loggedAs,     \* history: the identity of each open socket's latest login, 0 if none
  lastEvent     \* the event whose handler ran last

vars == <<sockets, nextSocket, onlineUsers, messages, sends, emitted, delivered, logins, loggedAs, lastEvent>>

(* ---- Map (insertion ordered, src/server.js:88) ---- *)
MapKeys(m) == [i \in 1..Len(m) |-> m[i][1]]

MapHas(m, k) == \E i \in 1..Len(m) : m[i][1] = k

\* Map.prototype.get; 0 stands for undefined (socket ids are >= 1)
MapGet(m, k) ==
  IF MapHas(m, k) THEN m[CHOOSE i \in 1..Len(m) : m[i][1] = k][2] ELSE 0

\* a bind that keeps the first handle of an identity
MapSetFirstWins(m, k, v) ==
  IF MapHas(m, k) THEN m ELSE Append(m, <<k, v>>)

\* Map.prototype.set: an existing key keeps its position, a new key goes last
MapSet(m, k, v) ==
  IF MapHas(m, k)
  THEN [i \in 1..Len(m) |-> IF m[i][1] = k THEN <<k, v>> ELSE m[i]]
  ELSE Append(m, <<k, v>>)

RemoveAt(s, i) == SubSeq(s, 1, i - 1) \o SubSeq(s, i + 1, Len(s))

\* a disconnect that deletes the oldest entry, whatever its value
DeleteFirstEntry(m, h) == IF m # <<>> THEN Tail(m) ELSE m

\* the loop of the disconnect handler: delete the first entry whose value is
\* the socket's id, then break
DeleteFirstBySocket(m, h) ==
  IF \E i \in 1..Len(m) : m[i][2] = h
  THEN LET i == CHOOSE j \in 1..Len(m) :
                  m[j][2] = h /\ \A l \in 1..(j - 1) : m[l][2] # h
       IN RemoveAt(m, i)
  ELSE m

(* ---- events ---- *)
\* a snapshot sent to the bound sockets only
OnlineUsersEventToBound(m, open) ==
  [type |-> "online_users",
   audience |-> {h \in open : \E i \in 1..Len(m) : m[i][2] = h},
   users |-> MapKeys(m)]

\* io.emit('online_users', Array.from(onlineUsers.keys())): to every open socket
OnlineUsersEvent(m, open) ==
  [type |-> "online_users", audience |-> open, users |-> MapKeys(m)]

ReceiveType(kind) == IF kind = "message" THEN "receive_message" ELSE "receive_image"

\* io.to(receiverSocket).emit('receive_message' | 'receive_image', {...})
ReceiveEvent(kind, room, senderId, body, timestamp, sid) ==
  [type |-> ReceiveType(kind), room |-> room, senderId |-> senderId,
   body |-> body, timestamp |-> timestamp, sid |-> sid]

TypingEvent(room, senderId) ==
  [type |-> "user_typing", room |-> room, senderId |-> senderId]

Init ==
  /\ sockets = {}
  /\ nextSocket = 1
  /\ onlineUsers = <<>>
  /\ messages = <<>>
  /\ sends = <<>>
  /\ emitted = <<>>
  /\ delivered = <<>>
  /\ logins = [h \in SocketIds |-> {}]
  /\ loggedAs = [h \in SocketIds |-> 0]
  /\ lastEvent = [op |-> "start", socket |-> 0, sid |-> 0, userId |-> 0, receiverId |-> 0]

\* history of the sends in flight: the receiver has been bound again
NoteLogin(ss, userId) ==
  [i \in 1..Len(ss) |->
     IF ss[i].stage # "done" /\ ss[i].receiverId = userId
     THEN [ss[i] EXCEPT !.rcvLeft = FALSE] ELSE ss[i]]

\* history of the sends in flight: the socket the receiver is bound to has closed
NoteDisconnect(ss, m, h) ==
  [i \in 1..Len(ss) |->
     IF ss[i].stage # "done" /\ MapGet(m, ss[i].receiverId) = h
     THEN [ss[i] EXCEPT !.rcvLeft = TRUE] ELSE ss[i]]

\* io.on('connection')
Connection ==
  /\ nextSocket <= MaxSockets
  /\ sockets' = sockets \cup {nextSocket}
  /\ nextSocket' = nextSocket + 1
  /\ emitted' = <<>>
  /\ lastEvent' = [op |-> "connection", socket |-> nextSocket, sid |-> 0, userId |-> 0, receiverId |-> 0]
  /\ UNCHANGED <<onlineUsers, messages, sends, delivered, logins, loggedAs>>

\* socket.on('user_login')
UserLogin(h, userId) ==
  /\ h \in sockets
  /\ onlineUsers' = MapSet(onlineUsers, userId, h)
  /\ emitted' = <<OnlineUsersEvent(onlineUsers', sockets)>>
  /\ lastEvent' = [op |-> "user_login", socket |-> h, sid |-> 0, userId |-> userId, receiverId |-> 0]
  /\ logins' = [logins EXCEPT ![h] = @ \cup {userId}]
  /\ loggedAs' = [loggedAs EXCEPT ![h] = userId]
  /\ sends' = NoteLogin(sends, userId)
  /\ UNCHANGED <<sockets, nextSocket, messages, delivered>>

\* an INSERT whose parameters are bound in the wrong order
MessageRowSwapped(kind, senderId, receiverId, body, sid) ==
  [sender_id |-> receiverId, receiver_id |-> senderId,
   message |-> IF kind = "message" THEN body ELSE Null,
   image_data |-> IF kind = "image" THEN body ELSE Null,
   sid |-> sid]

\* the row an INSERT of a send handler adds: the column of the other kind
\* is not named in the statement and stays NULL
MessageRow(kind, senderId, receiverId, body, sid) ==
  [sender_id |-> senderId, receiver_id |-> receiverId,
   message |-> IF kind = "message" THEN body ELSE Null,
   image_data |-> IF kind = "image" THEN body ELSE Null,
   sid |-> sid]

\* the db.run call of a send handler: the statement is queued with the
\* callback's closure; the handler returns without emitting anything
QueueSend(kind, h, senderId, receiverId, body, timestamp) ==
  /\ h \in sockets
  /\ Len(sends) < MaxSends
  /\ sends' = Append(sends, [kind |-> kind, from |-> h, senderId |-> senderId,
                             receiverId |-> receiverId, body |-> body,
                             timestamp |-> timestamp, stage |-> "queued",
                             result |-> "none",
                             fromBound |-> (MapGet(onlineUsers, senderId) = h),
                             rcvAtInsert |-> "none", rcvLeft |-> FALSE])
  /\ emitted' = <<>>
  /\ lastEvent' = [op |-> IF kind = "message" THEN "send_message" ELSE "send_image",
                   socket |-> h, sid |-> Len(sends) + 1, userId |-> senderId,
                   receiverId |-> receiverId]
  /\ UNCHANGED <<sockets, nextSocket, onlineUsers, messages, delivered, logins, loggedAs>>

\* socket.on('send_message')
SendMessage(h, senderId, receiverId, message, timestamp) ==
  QueueSend("message", h, senderId, receiverId, message, timestamp)

\* socket.on('send_image')
SendImage(h, senderId, receiverId, imageData, timestamp) ==
  QueueSend("image", h, senderId, receiverId, imageData, timestamp)

\* the store runs the queued INSERT and the row is written
StoreInsert(sid) ==
  /\ sid \in 1..Len(sends)
  /\ sends[sid].stage = "queued"
  /\ messages' = Append(messages, MessageRow(sends[sid].kind, sends[sid].senderId,
                                             sends[sid].receiverId, sends[sid].body, sid))
  /\ sends' = [sends EXCEPT ![sid].stage = "completed", ![sid].result = "ok",
                            ![sid].rcvAtInsert =
                              IF MapHas(onlineUsers, sends[sid].receiverId)
                              THEN "online" ELSE "offline"]
  /\ emitted' = <<>>
  /\ lastEvent' = [op |-> "store_insert", socket |-> 0, sid |-> sid, userId |-> 0, receiverId |-> 0]
  /\ UNCHANGED <<sockets, nextSocket, onlineUsers, delivered, logins, loggedAs>>

\* the store cannot run the queued INSERT: the callback will get err
StoreError(sid) ==
  /\ sid \in 1..Len(sends)
  /\ sends[sid].stage = "queued"
  /\ sends' = [sends EXCEPT ![sid].stage = "completed", ![sid].result = "err"]
  /\ emitted' = <<>>
  /\ lastEvent' = [op |-> "store_error", socket |-> 0, sid |-> sid, userId |-> 0, receiverId |-> 0]
  /\ UNCHANGED <<sockets, nextSocket, onlineUsers, messages, delivered, logins, loggedAs>>

\* a callback that does not look at err
SavedEmitsIgnoringErr(err, m, kind, senderId, receiverId, body, timestamp, sid) ==
  IF MapGet(m, receiverId) # 0
  THEN <<ReceiveEvent(kind, MapGet(m, receiverId), senderId, body, timestamp, sid)>>
  ELSE <<>>

\* a callback that delivers to the sender's registry entry
SavedEmitsToSender(err, m, kind, senderId, receiverId, body, timestamp, sid) ==
  IF err THEN <<>>
  ELSE IF MapGet(m, senderId) # 0
  THEN <<ReceiveEvent(kind, MapGet(m, senderId), senderId, body, timestamp, sid)>>
  ELSE <<>>

\* a callback that emits the delivery twice
SavedEmitsTwice(err, m, kind, senderId, receiverId, body, timestamp, sid) ==
  IF err THEN <<>>
  ELSE IF MapGet(m, receiverId) # 0
  THEN <<ReceiveEvent(kind, MapGet(m, receiverId), senderId, body, timestamp, sid),
         ReceiveEvent(kind, MapGet(m, receiverId), senderId, body, timestamp, sid)>>
  ELSE <<>>

\* what the db.run callback of a send handler emits
SavedEmits(err, m, kind, senderId, receiverId, body, timestamp, sid) ==
  IF err THEN <<>>
  ELSE IF MapGet(m, receiverId) # 0
  THEN <<ReceiveEvent(kind, MapGet(m, receiverId), senderId, body, timestamp, sid)>>
  ELSE <<>>

\* a callback that drops the receiver's registry entry once it has delivered
SaveCallbackUnbinding(sid) ==
  /\ sid \in 1..Len(sends)
  /\ sends[sid].stage = "completed"
  /\ LET c == sends[sid]
         out == SavedEmits(c.result = "err", onlineUsers, c.kind, c.senderId,
                           c.receiverId, c.body, c.timestamp, sid)
     IN /\ emitted' = out
        /\ delivered' = delivered \o out
        /\ onlineUsers' = IF out = <<>> THEN onlineUsers
                          ELSE DeleteFirstBySocket(onlineUsers, MapGet(onlineUsers, c.receiverId))
  /\ sends' = [sends EXCEPT ![sid].stage = "done"]
  /\ lastEvent' = [op |-> "save_callback", socket |-> sends[sid].from, sid |-> sid,
                   userId |-> sends[sid].senderId, receiverId |-> sends[sid].receiverId]
  /\ UNCHANGED <<sockets, nextSocket, messages, logins, loggedAs>>

\* the db.run callback of send_message / send_image
SaveCallback(sid) ==
  /\ sid \in 1..Len(sends)
  /\ sends[sid].stage = "completed"
  /\ LET c == sends[sid]
         out == SavedEmits(c.result = "err", onlineUsers, c.kind, c.senderId,
                           c.receiverId, c.body, c.timestamp, sid)
     IN /\ emitted' = out
        /\ delivered' = delivered \o out
  /\ sends' = [sends EXCEPT ![sid].stage = "done"]
  /\ lastEvent' = [op |-> "save_callback", socket |-> sends[sid].from, sid |-> sid,
                   userId |-> sends[sid].senderId, receiverId |-> sends[sid].receiverId]
  /\ UNCHANGED <<sockets, nextSocket, onlineUsers, messages, logins, loggedAs>>

\* a typing handler that looks up the sender instead of the receiver
TypingEmitsToSender(m, senderId, receiverId) ==
  IF MapGet(m, senderId) # 0
  THEN <<TypingEvent(MapGet(m, senderId), senderId)>>
  ELSE <<>>

\* what the typing handler emits
TypingEmits(m, senderId, receiverId) ==
  IF MapGet(m, receiverId) # 0
  THEN <<TypingEvent(MapGet(m, receiverId), senderId)>>
  ELSE <<>>

\* socket.on('typing')
Typing(h, senderId, receiverId) ==
  /\ h \in sockets
  /\ emitted' = TypingEmits(onlineUsers, senderId, receiverId)
  /\ lastEvent' = [op |-> "typing", socket |-> h, sid |-> 0, userId |-> senderId,
                   receiverId |-> receiverId]
  /\ UNCHANGED <<sockets, nextSocket, onlineUsers, messages, sends, delivered, logins, loggedAs>>

\* socket.on('disconnect'): the socket has left when the handler runs
Disconnect(h) ==
  /\ h \in sockets
  /\ sockets' = sockets \ {h}
  /\ onlineUsers' = DeleteFirstBySocket(onlineUsers, h)
  /\ emitted' = <<OnlineUsersEvent(onlineUsers', sockets')>>
  /\ lastEvent' = [op |-> "disconnect", socket |-> h, sid |-> 0, userId |-> 0, receiverId |-> 0]
  /\ logins' = [logins EXCEPT ![h] = {}]
  /\ loggedAs' = [loggedAs EXCEPT ![h] = 0]
  /\ sends' = NoteDisconnect(sends, onlineUsers, h)
  /\ UNCHANGED <<nextSocket, messages, delivered>>

Next ==
  \/ Connection
  \/ \E h \in SocketIds, u \in Users : UserLogin(h, u)
  \/ \E h \in SocketIds, s \in SenderIds, r \in Users, b \in TextBodies, t \in Timestamps :
       SendMessage(h, s, r, b, t)
  \/ \E h \in SocketIds, s \in SenderIds, r \in Users, b \in ImageBodies, t \in Timestamps :
       SendImage(h, s, r, b, t)
  \/ \E sid \in 1..MaxSends : StoreInsert(sid)
  \/ \E sid \in 1..MaxSends : StoreError(sid)
  \/ \E sid \in 1..MaxSends : SaveCallback(sid)
  \/ \E h \in SocketIds, s \in SenderIds, r \in Users : Typing(h, s, r)
  \/ \E h \in SocketIds : Disconnect(h)

Spec == Init /\ [][Next]_vars

(* ---- vocabulary of the properties ---- *)
Range(s) == {s[i] : i \in 1..Len(s)}

DeliveryTypes == {"receive_message", "receive_image"}

\* the registry binds identity u to socket h
Bound(m, u, h) == <<u, h>> \in Range(m)

Online(m, u) == \E h \in SocketIds : Bound(m, u, h)

RowsOf(tbl, sid) == {j \in 1..Len(tbl) : tbl[j].sid = sid}

DeliveriesOf(log, sid) == {i \in 1..Len(log) : log[i].sid = sid}

\* the step in which the db.run callback of send sid runs
CallbackStep(sid) ==
  /\ sid \in 1..Len(sends)
  /\ sends[sid].stage = "completed"
  /\ sends'[sid].stage = "done"

(* ---- C1 ---- *)
\* C1: persist before deliver. Every receive_message / receive_image event is
\* emitted for a send whose row was in the messages table before the step that
\* emits it, and every delivery ever emitted has its row in the table.
C1_PersistBeforeDeliver ==
  [][ /\ \A e \in Range(emitted') :
           e.type \in DeliveryTypes => RowsOf(messages, e.sid) # {}
      /\ \A e \in Range(delivered') :
           /\ RowsOf(messages', e.sid) # {}
           /\ sends'[e.sid].result = "ok" ]_vars

C1_Witness ==
  /\ lastEvent.op = "save_callback"
  /\ Len(emitted) = 1
  /\ emitted[1].type = "receive_message"
  /\ RowsOf(messages, emitted[1].sid) # {}

(* ---- C2 ---- *)
\* C2: every send whose INSERT succeeded has exactly one row, carrying the
\* senderId, the receiverId and the payload of the send in the column of its
\* kind and NULL in the other column; there are no other rows.
C2_ExactlyOneRow ==
  /\ \A sid \in 1..Len(sends) :
       sends[sid].result = "ok" =>
         /\ Cardinality(RowsOf(messages, sid)) = 1
         /\ \A j \in RowsOf(messages, sid) :
              /\ messages[j].sender_id = sends[sid].senderId
              /\ messages[j].receiver_id = sends[sid].receiverId
              /\ sends[sid].kind = "message" =>
                   messages[j].message = sends[sid].body /\ messages[j].image_data = Null
              /\ sends[sid].kind = "image" =>
                   messages[j].image_data = sends[sid].body /\ messages[j].message = Null
  /\ \A j \in 1..Len(messages) :
       messages[j].sid \in 1..Len(sends) /\ sends[messages[j].sid].result = "ok"

\* an image stored for a recipient who went offline while the send was in flight
C2_Witness ==
  \E sid \in 1..Len(sends) :
    /\ sends[sid].kind = "image"
    /\ sends[sid].body = "img"
    /\ sends[sid].stage = "done"
    /\ sends[sid].result = "ok"
    /\ ~Online(onlineUsers, sends[sid].receiverId)
    /\ lastEvent.op = "save_callback"
    /\ Cardinality(RowsOf(messages, sid)) = 1

(* ---- C3 ---- *)
\* C3: when the callback of a successful send runs and the registry binds the
\* receiver to a socket, exactly one event of the send's kind is emitted, to
\* that socket, with senderId, payload and timestamp of the send; when the
\* registry has no entry for the receiver, nothing at all is emitted.
C3_DeliverIffOnline ==
  [][ \A sid \in 1..MaxSends :
        (CallbackStep(sid) /\ sends[sid].result = "ok") =>
          LET c == sends[sid] IN
          IF Online(onlineUsers, c.receiverId)
          THEN /\ Len(emitted') = 1
               /\ emitted'[1].type =
                    (IF c.kind = "message" THEN "receive_message" ELSE "receive_image")
               /\ Bound(onlineUsers, c.receiverId, emitted'[1].room)
               /\ emitted'[1].senderId = c.senderId
               /\ emitted'[1].body = c.body
               /\ emitted'[1].timestamp = c.timestamp
               /\ Cardinality(DeliveriesOf(delivered', sid)) = 1
          ELSE /\ emitted' = <<>>
               /\ DeliveriesOf(delivered', sid) = {} ]_vars

\* an image delivered to the second socket, the sender being on the first
C3_Witness ==
  /\ lastEvent.op = "save_callback"
  /\ Len(emitted) = 1
  /\ emitted[1].type = "receive_image"
  /\ emitted[1].room = 2
  /\ lastEvent.socket = 1
  /\ Bound(onlineUsers, lastEvent.receiverId, 2)

(* ---- C4 ---- *)
TargetedTypes == DeliveryTypes \cup {"user_typing"}

\* C4: every receive_message, receive_image and user_typing event is addressed
\* to a socket that is open when the event is emitted.
C4_NoStaleHandle ==
  \A e \in Range(emitted) : e.type \in TargetedTypes => e.room \in sockets

(* ---- C5 ---- *)
\* C5: an identity is a key of onlineUsers if and only if some open socket has
\* logged in as it.
C5_PresenceInvariant ==
  \A u \in Users :
    (\E i \in 1..Len(onlineUsers) : onlineUsers[i][1] = u)
      <=> (\E h \in sockets : u \in logins[h])

(* ---- C6 ---- *)
\* an event to socket h that is neither a delivery, a typing nor a presence event
ReportedTo(h) ==
  \E i \in 1..Len(emitted) :
    /\ emitted[i].type \notin TargetedTypes \cup {"online_users"}
    /\ emitted[i].room = h

\* C6: a send without payload writes no row and causes no delivery event, and
\* its handler reports the rejection to the issuing socket.
C6_MalformedRejected ==
  /\ \A sid \in 1..Len(sends) :
       sends[sid].body = Null =>
         RowsOf(messages, sid) = {} /\ DeliveriesOf(delivered, sid) = {}
  /\ (lastEvent.op \in {"send_message", "send_image"} /\ sends[lastEvent.sid].body = Null)
       => ReportedTo(lastEvent.socket)

(* ---- C7 ---- *)
\* C7: the callback of a failed INSERT emits nothing and changes neither the
\* table, the registry nor any other send; a failed send never has a row or a
\* delivery event, and it is never run again.
C7_FailureAborts ==
  [][ /\ \A sid \in 1..MaxSends :
           (CallbackStep(sid) /\ sends[sid].result = "err") =>
             /\ emitted' = <<>>
             /\ delivered' = delivered
             /\ messages' = messages
             /\ onlineUsers' = onlineUsers
             /\ Len(sends') = Len(sends)
             /\ \A k \in (1..Len(sends)) \ {sid} : sends'[k] = sends[k]
      /\ \A sid \in 1..Len(sends') :
           sends'[sid].result = "err" =>
             RowsOf(messages', sid) = {} /\ DeliveriesOf(delivered', sid) = {}
      /\ \A sid \in 1..Len(sends) :
           sends[sid].result = "err" =>
             sends'[sid].result = "err" /\ sends'[sid].stage # "queued" ]_vars

\* the callback of a failed send has run while its recipient was online
C7_Witness ==
  /\ lastEvent.op = "save_callback"
  /\ sends[lastEvent.sid].result = "err"
  /\ sends[lastEvent.sid].stage = "done"
  /\ Online(onlineUsers, lastEvent.receiverId)
  /\ emitted = <<>>

(* ---- C8 ---- *)
\* C8: when the callback of a send gets err, a failure is reported to the
\* socket that issued the send.
C8_FailureSurfaced ==
  (lastEvent.op = "save_callback" /\ sends[lastEvent.sid].result = "err")
    => ReportedTo(sends[lastEvent.sid].from)

(* ---- C9 ---- *)
IsSnapshot(out) == Len(out) = 1 /\ out[1].type = "online_users"

\* C9: the broadcast of a login as A contains A; the broadcast of the
\* disconnect of a socket that logged in as A does not contain A, unless the
\* registry bound A to another socket when the disconnect arrived.
C9_SnapshotFollowsLifecycle ==
  [][ /\ lastEvent'.op = "user_login" =>
           IsSnapshot(emitted') /\ lastEvent'.userId \in Range(emitted'[1].users)
      /\ \A h \in sockets \ sockets' : \A u \in logins[h] :
           \/ \E h2 \in SocketIds \ {h} : Bound(onlineUsers, u, h2)
           \/ IsSnapshot(emitted') /\ u \notin Range(emitted'[1].users) ]_vars

(* ---- C10 ---- *)
\* C10: the registry has one entry per identity at most; a login binds the
\* identity to the socket that logged in and closes no socket; a binding ends
\* only by a login as the same identity or by the disconnect of its socket;
\* every delivery and typing event goes to the socket the receiver is bound to.
C10_LastBindWins ==
  [][ /\ \A i, j \in 1..Len(onlineUsers') :
           onlineUsers'[i][1] = onlineUsers'[j][1] => i = j
      /\ lastEvent'.op = "user_login" =>
           /\ Bound(onlineUsers', lastEvent'.userId, lastEvent'.socket)
           /\ sockets' = sockets
      /\ \A u \in Users, h \in SocketIds :
           (Bound(onlineUsers, u, h) /\ ~Bound(onlineUsers', u, h)) =>
             \/ lastEvent'.op = "user_login" /\ lastEvent'.userId = u
             \/ lastEvent'.op = "disconnect" /\ lastEvent'.socket = h
      /\ \A e \in Range(emitted') :
           e.type \in TargetedTypes =>
             Bound(onlineUsers', lastEvent'.receiverId, e.room) ]_vars

\* an identity logged in on socket 1 and then on socket 2, both sockets open,
\* and an event for it has gone to socket 2
C10_Witness ==
  \E u \in Users :
    /\ {1, 2} \subseteq sockets
    /\ u \in logins[1]
    /\ u \in logins[2]
    /\ Bound(onlineUsers, u, 2)
    /\ lastEvent.op \in {"typing", "save_callback"}
    /\ lastEvent.receiverId = u
    /\ Len(emitted) = 1
    /\ emitted[1].room = 2

(* ---- C11 ---- *)
\* C11: after the disconnect handler of a socket has run, no registry entry
\* has that socket as its value; if none had, the registry is as it was.
C11_UnbindPostcondition ==
  [][ \A h \in sockets \ sockets' :
        /\ \A u \in Users : ~Bound(onlineUsers', u, h)
        /\ (\A u \in Users : ~Bound(onlineUsers, u, h)) => onlineUsers' = onlineUsers ]_vars

(* ---- C12 ---- *)
\* C12: the typing handler emits one user_typing event, to the socket the
\* registry binds the receiver to, when the registry has an entry for the
\* receiver, and nothing otherwise; it changes neither the messages table, the
\* queued statements nor the registry.
C12_TypingOnlyWhileBound ==
  [][ lastEvent'.op = "typing" =>
        /\ IF Online(onlineUsers, lastEvent'.receiverId)
           THEN /\ Len(emitted') = 1
                /\ emitted'[1].type = "user_typing"
                /\ Bound(onlineUsers, lastEvent'.receiverId, emitted'[1].room)
                /\ emitted'[1].senderId = lastEvent'.userId
           ELSE emitted' = <<>>
        /\ messages' = messages
        /\ sends' = sends
        /\ delivered' = delivered
        /\ onlineUsers' = onlineUsers ]_vars

\* a typing event for an identity nobody is bound as, sent while another
\* identity is online, has been dropped
C12_Witness ==
  /\ lastEvent.op = "typing"
  /\ emitted = <<>>
  /\ ~Online(onlineUsers, lastEvent.receiverId)
  /\ onlineUsers # <<>>

(* ---- C13 ---- *)
\* C13: a message whose row was inserted while the registry had no entry for
\* its receiver is never delivered, and no message is delivered more than once.
C13_NoDeliveryIfOfflineAtInsert ==
  \A sid \in 1..Len(sends) :
    /\ sends[sid].rcvAtInsert = "offline" => DeliveriesOf(delivered, sid) = {}
    /\ Cardinality(DeliveriesOf(delivered, sid)) <= 1

\* C13, amended: a message whose callback runs while the registry has no entry
\* for its receiver is not delivered then, and once the callback of a send has
\* run no delivery event is emitted for it any more, in particular by no
\* login; no message is delivered more than once.
C13_NoDeliveryAfterCallback ==
  [][ /\ \A sid \in 1..Len(sends) :
           /\ (CallbackStep(sid) /\ ~Online(onlineUsers, sends[sid].receiverId))
                => DeliveriesOf(delivered', sid) = {}
           /\ sends[sid].stage = "done" =>
                /\ sends'[sid].stage = "done"
                /\ DeliveriesOf(delivered', sid) = DeliveriesOf(delivered, sid)
           /\ Cardinality(DeliveriesOf(delivered', sid)) <= 1
      /\ \A e \in Range(emitted') :
           e.type \in DeliveryTypes =>
             e.sid \in 1..Len(sends) /\ sends[e.sid].stage = "completed"
      /\ lastEvent'.op = "user_login" => delivered' = delivered ]_vars

\* the receiver of a stored, undelivered message has just logged in
C13_Witness ==
  /\ lastEvent.op = "user_login"
  /\ IsSnapshot(emitted)
  /\ \E sid \in 1..Len(sends) :
       /\ sends[sid].stage = "done"
       /\ sends[sid].result = "ok"
       /\ sends[sid].receiverId = lastEvent.userId
       /\ DeliveriesOf(delivered, sid) = {}
       /\ RowsOf(messages, sid) # {}

(* ---- C14 ---- *)
\* C14: the disconnect of the socket the receiver of a send in flight is bound
\* to changes neither the table nor the progress of the send; unless the
\* receiver logs in again before the callback, the send ends without a
\* delivery event, and with its row when the INSERT succeeded.
C14_DisconnectInFlight ==
  [][ /\ \A h \in sockets \ sockets' :
           /\ messages' = messages
           /\ \A sid \in 1..Len(sends) :
                /\ sends'[sid].stage = sends[sid].stage
                /\ sends'[sid].result = sends[sid].result
      /\ \A sid \in 1..Len(sends') :
           (sends'[sid].rcvLeft /\ sends'[sid].stage = "done") =>
             /\ DeliveriesOf(delivered', sid) = {}
             /\ sends'[sid].result = "ok" => Cardinality(RowsOf(messages', sid)) = 1 ]_vars

(* ---- C15 ---- *)
\* C15: a send handler emits nothing, and the callback of a successful send
\* from one identity to another emits nothing to the socket that issued the
\* send: what the sender's socket gets is the same whether the receiver is
\* online or not.
C15_SenderSeesNoOutcome ==
  [][ /\ lastEvent'.op \in {"send_message", "send_image"} => emitted' = <<>>
      /\ \A sid \in 1..MaxSends :
           (/\ CallbackStep(sid)
            /\ sends[sid].result = "ok"
            /\ sends[sid].senderId # sends[sid].receiverId) =>
             \A i \in 1..Len(emitted') : emitted'[i].room # sends[sid].from ]_vars

(* ---- C16 ---- *)
\* C16: the disconnect of a socket that is the value of no registry entry
\* leaves the registry as it was and emits only the snapshot of its keys.
C16_DisconnectOfUnboundSocket ==
  [][ \A h \in sockets \ sockets' :
        (\A u \in Users : ~Bound(onlineUsers, u, h)) =>
          /\ onlineUsers' = onlineUsers
          /\ IsSnapshot(emitted')
          /\ Range(emitted'[1].users) = {onlineUsers[i][1] : i \in 1..Len(onlineUsers)} ]_vars

\* socket 1 has disconnected while every identity is bound to the open socket 2
C16_Witness ==
  /\ lastEvent.op = "disconnect"
  /\ lastEvent.socket = 1
  /\ 2 \in sockets
  /\ Len(onlineUsers) = MaxUsers
  /\ \A u \in Users : Bound(onlineUsers, u, 2)

(* ---- C17 ---- *)
\* C17: a login and a disconnect each emit exactly one online_users event, to
\* every open socket, whose content is the key set of the registry after the
\* event; no other handler emits an online_users event.
C17_OneSnapshotPerLifecycleEvent ==
  [][ /\ lastEvent'.op \in {"user_login", "disconnect"} =>
           /\ Len(emitted') = 1
           /\ emitted'[1].type = "online_users"
           /\ emitted'[1].audience = sockets'
           /\ Len(emitted'[1].users) = Len(onlineUsers')
           /\ Range(emitted'[1].users) = {onlineUsers'[i][1] : i \in 1..Len(onlineUsers')}
      /\ lastEvent'.op \notin {"user_login", "disconnect"} =>
           \A i \in 1..Len(emitted') : emitted'[i].type # "online_users" ]_vars

\* a login on socket 1 whose snapshot also went to the unbound socket 2
C17_Witness ==
  /\ lastEvent.op = "user_login"
  /\ sockets = {1, 2}
  /\ IsSnapshot(emitted)
  /\ emitted[1].audience = {1, 2}
  /\ onlineUsers # <<>>
  /\ \A i \in 1..Len(onlineUsers) : onlineUsers[i][2] = 1

(* ---- C18 ---- *)
\* C18: once a socket that logged in as A has logged in as another identity,
\* no delivery or typing event addressed to A goes to that socket: an event
\* for A that goes to an open socket that has logged in as A finds A to be
\* that socket's latest login.
C18_OldIdentityUnreachable ==
  \A i \in 1..Len(emitted) :
    emitted[i].type \in TargetedTypes =>
      LET h == emitted[i].room IN
      (h \in sockets /\ lastEvent.receiverId \in logins[h])
        => loggedAs[h] = lastEvent.receiverId

(* ---- C19 ---- *)
\* C19: the sender_id of every row and the senderId of every receive_message,
\* receive_image and user_typing event is an identity the registry bound to
\* the issuing socket when it issued the send or typing event.
C19_SenderAuthentic ==
  /\ \A j \in 1..Len(messages) :
       /\ messages[j].sender_id = sends[messages[j].sid].senderId
       /\ sends[messages[j].sid].fromBound
  /\ \A i \in 1..Len(delivered) :
       /\ delivered[i].senderId = sends[delivered[i].sid].senderId
       /\ sends[delivered[i].sid].fromBound
  /\ lastEvent.op = "typing" =>
       \A i \in 1..Len(emitted) :
         Bound(onlineUsers, emitted[i].senderId, lastEvent.socket)

(* ---- C20 ---- *)
LifecycleOps == {"user_login", "disconnect"}

\* C20: the registry changes only in the login and disconnect handlers; the
\* send handlers, the statements they queue, their callbacks and the typing
\* handler leave it as it is; login and disconnect leave the messages table
\* as it is.
C20_RegistryFrame ==
  [][ /\ onlineUsers' # onlineUsers => lastEvent'.op \in LifecycleOps
      /\ lastEvent'.op \in {"send_message", "send_image", "store_insert",
                            "store_error", "save_callback", "typing"}
           => onlineUsers' = onlineUsers
      /\ lastEvent'.op \in LifecycleOps => messages' = messages
      /\ messages' # messages => lastEvent'.op = "store_insert" ]_vars

\* a callback has delivered with two identities bound; the registry is intact
C20_Witness ==
  /\ lastEvent.op = "save_callback"
  /\ Len(emitted) = 1
  /\ Len(onlineUsers) = 2
  /\ Len(messages) = 1
  /\ Bound(onlineUsers, lastEvent.receiverId, emitted[1].room)
====
